---- MODULE Spec2Model ----
(***************************************************************************)
(* Model of libobs-d3d11/d3d11-duplicator.cpp: the registry of reference   *)
(* counted output-duplication sessions (instances), session construction   *)
(* (gs_duplicator::Start, CreateDisplayWindow), the polling frame update   *)
(* (gs_duplicator_update_frame, copy_texture) and the preview presenter    *)
(* (gs_duplicator::PresentFrame).  All operations run on one thread, so    *)
(* every exported function is one atomic action.                           *)
(***************************************************************************)
EXTENDS Integers, Sequences, FiniteSets, TLC

VARIABLES
    instances,   \* the map instances: monitor index -> session
    registered,  \* the static flag of RegisterDisplayWindowClass
    device,      \* the shared state of the graphics device
    created,     \* history: sessions constructed so far, per monitor index
    held,        \* history: handles handed out and not yet released, per index
    alive,       \* history: the sessions constructed and not yet deleted
    called,      \* history: indices whose session was updated since the last reset
    lastOp       \* history: the last operation, its inputs and what it returned
                 \* (a destroy also tells whether it answers a failed update)

vars == <<instances, registered, device, created, held, alive, called, lastOp>>

(***************************************************************************)
(* Bounds of the model.                                                    *)
(***************************************************************************)
\* callers sharing one session
MaxRefs == 2
\* sessions constructed per monitor index over a run
MaxCreated == 2
\* textures allocated per session over its life
MaxTextures == 2

\* monitor indices a caller may pass, and those the adapter enumerates
MonitorIdx == {0, 1, 2}
Outputs == {0, 1}

\* the identity of a session: <<monitor index, construction number>>;
\* NoSession is the null handle
NoSession == <<>>

\* null pointers: a texture, window or swap chain that does not exist
NullTexture == [id |-> 0, width |-> 0, height |-> 0, format |-> "GS_UNKNOWN"]
NullWindow == [hwnd |-> FALSE, visible |-> FALSE,
               client |-> [width |-> 0, height |-> 0]]
NullSwapChain == [ptr |-> FALSE, width |-> 0, height |-> 0, renderTarget |-> FALSE]

(***************************************************************************)
(* Values of the environment.                                              *)
(***************************************************************************)
\* supportedFormats passed to DuplicateOutput1; the legacy DuplicateOutput
\* always delivers B8G8R8A8_UNORM
FORMAT_FP16 == "DXGI_FORMAT_R16G16B16A16_FLOAT"
FORMAT_BGRA8 == "DXGI_FORMAT_B8G8R8A8_UNORM"
supportedFormats == {FORMAT_FP16, FORMAT_BGRA8}

\* desktop size of an output (DXGI_OUTPUT_DESC.DesktopCoordinates)
DesktopSize == [width |-> 4, height |-> 2]

\* what GetMonitorColorInfo may report
ColorInfos == {[hdr |-> FALSE, sdr_white_nits |-> 80],
               [hdr |-> TRUE, sdr_white_nits |-> 200]}

\* client areas the preview window may have
ClientSizes == {[width |-> 0, height |-> 1],
                [width |-> 1, height |-> 0],
                [width |-> 1, height |-> 1],
                [width |-> 2, height |-> 1]}

\* descriptors of the frames the provider may deliver
FrameSizes == {[width |-> 1, height |-> 1],
               [width |-> 2, height |-> 1],
               [width |-> 1, height |-> 2]}

FrameDescs(fmts) ==
    {[Width |-> s.width, Height |-> s.height, Format |-> f] :
        s \in FrameSizes, f \in fmts}

AnyFrame == [Width |-> 1, Height |-> 1, Format |-> FORMAT_BGRA8]

\* results of IDXGIOutputDuplication::AcquireNextFrame
PollResults == {"S_OK", "DXGI_ERROR_WAIT_TIMEOUT", "DXGI_ERROR_ACCESS_LOST", "E_FAIL"}

(***************************************************************************)
(* Pixel formats.                                                          *)
(***************************************************************************)
ConvertDXGITextureFormat(format) ==
    CASE format = "DXGI_FORMAT_R16G16B16A16_FLOAT" -> "GS_RGBA16F"
      [] format = "DXGI_FORMAT_B8G8R8A8_UNORM" -> "GS_BGRA_UNORM"
      [] format = "DXGI_FORMAT_B8G8R8A8_TYPELESS" -> "GS_BGRA"
      [] OTHER -> "GS_UNKNOWN"

gs_generalize_format(format) ==
    CASE format = "GS_RGBA_UNORM" -> "GS_RGBA"
      [] format = "GS_BGRX_UNORM" -> "GS_BGRX"
      [] format = "GS_BGRA_UNORM" -> "GS_BGRA"
      [] OTHER -> format

(***************************************************************************)
(* get_monitor: EnumOutputs on the adapter; enum is its HRESULT.           *)
(***************************************************************************)
\* "true", "false" or "throw" (HRError)
get_monitor(enum) ==
    CASE enum = "S_OK" -> "true"
      [] enum = "DXGI_ERROR_NOT_FOUND" -> "false"
      [] OTHER -> "throw"

(***************************************************************************)
(* RegisterDisplayWindowClass: the value of the static flag afterwards,    *)
(* which is also what the function returns.                                *)
(***************************************************************************)
RegisterDisplayWindowClass(reg, regOk) ==
    IF reg THEN TRUE ELSE regOk

(***************************************************************************)
(* The environment of gs_duplicator::CreateDisplayWindow, one record per   *)
(* path through the function.                                              *)
(***************************************************************************)
WindowEnvAll ==
    [regOk : BOOLEAN, enum : {"S_OK", "DXGI_ERROR_NOT_FOUND", "E_FAIL"},
     getDesc : BOOLEAN, wndOk : BOOLEAN, swapOk : BOOLEAN, client : ClientSizes]

FirstClient == [width |-> 1, height |-> 1]

WindowEnvs ==
    {w \in WindowEnvAll :
        /\ (w.enum # "S_OK" => ~w.getDesc)
        /\ (~w.getDesc => ~w.wndOk)
        /\ (~w.wndOk => ~w.swapOk)
        /\ (~w.swapOk => w.client = FirstClient)}

\* the outcome of a constructor step: the session, or an exception thrown
Returned(d) == [thrown |-> FALSE, d |-> d]
Thrown(d) == [thrown |-> TRUE, d |-> d]

\* the session after CreateDisplayWindow; thrown when get_monitor throws
CreateDisplayWindow(d, reg, w) ==
    IF ~RegisterDisplayWindowClass(reg, w.regOk) THEN Returned(d)
    ELSE IF get_monitor(w.enum) = "throw" THEN Thrown(d)
    ELSE IF get_monitor(w.enum) = "false" THEN Returned(d)
    ELSE IF ~w.getDesc THEN Returned(d)
    ELSE IF ~w.wndOk THEN Returned(d)
    ELSE IF ~w.swapOk THEN Returned([d EXCEPT !.displayWindow = NullWindow])
    ELSE Returned([d EXCEPT
            !.displayWindow = [hwnd |-> TRUE, visible |-> TRUE, client |-> w.client],
            !.displaySwapChain =
                [ptr |-> TRUE,
                 width |-> DesktopSize.width \div 2,
                 height |-> DesktopSize.height \div 2,
                 renderTarget |-> TRUE]])

(***************************************************************************)
(* The environment of gs_duplicator::Start up to CreateDisplayWindow.      *)
(***************************************************************************)
CaptureEnvAll ==
    [enum : {"S_OK", "DXGI_ERROR_NOT_FOUND", "E_FAIL"}, output5 : BOOLEAN,
     output1 : BOOLEAN, dupOk : BOOLEAN, getDesc : BOOLEAN, info : ColorInfos]

FirstInfo == [hdr |-> FALSE, sdr_white_nits |-> 80]

CaptureEnvAny ==
    {c \in CaptureEnvAll :
        /\ (c.enum # "S_OK" => ~c.output5 /\ ~c.output1)
        /\ (c.output5 => ~c.output1)
        /\ (~c.output5 /\ ~c.output1 => ~c.dupOk)
        /\ (~(c.output5 /\ c.dupOk) => ~c.getDesc)
        /\ (~c.getDesc => c.info = FirstInfo)}

CaptureEnvNotFound == {c \in CaptureEnvAny : c.enum = "DXGI_ERROR_NOT_FOUND"}

CaptureEnvs(monitor_idx) ==
    IF monitor_idx \notin Outputs THEN CaptureEnvNotFound ELSE CaptureEnvAny

\* mutant: the duplication of an IDXGIOutput5 does not read the color info
Start_IgnoresColorInfo(d, reg, c, w) ==
    IF get_monitor(c.enum) # "true" THEN Thrown(d)
    ELSE IF c.output5
    THEN IF ~c.dupOk THEN Thrown(d)
         ELSE CreateDisplayWindow(
                [d EXCEPT !.duplicator = TRUE, !.hdr = FALSE, !.sdr_white_nits = 80,
                          !.formats = supportedFormats],
                reg, w)
    ELSE IF ~c.output1 THEN Thrown(d)
    ELSE IF ~c.dupOk THEN Thrown(d)
    ELSE CreateDisplayWindow(
            [d EXCEPT !.duplicator = TRUE, !.hdr = FALSE, !.sdr_white_nits = 80,
                      !.formats = {FORMAT_BGRA8}],
            reg, w)

\* the session after Start; thrown on const char * or HRError
Start(d, reg, c, w) ==
    IF get_monitor(c.enum) # "true" THEN Thrown(d)
    ELSE IF c.output5
    THEN IF ~c.dupOk THEN Thrown(d)
         ELSE CreateDisplayWindow(
                [d EXCEPT !.duplicator = TRUE,
                          !.hdr = IF c.getDesc THEN c.info.hdr ELSE FALSE,
                          !.sdr_white_nits =
                              IF c.getDesc THEN c.info.sdr_white_nits ELSE 80,
                          !.formats = supportedFormats],
                reg, w)
    ELSE IF ~c.output1 THEN Thrown(d)
    ELSE IF ~c.dupOk THEN Thrown(d)
    ELSE CreateDisplayWindow(
            [d EXCEPT !.duplicator = TRUE, !.hdr = FALSE, !.sdr_white_nits = 80,
                      !.formats = {FORMAT_BGRA8}],
            reg, w)

\* gs_duplicator::gs_duplicator: the member initialisers (color_space has
\* its in-class default), then Start()
gs_duplicator(id, monitor_idx, reg, c, w) ==
    Start([id |-> id, idx |-> monitor_idx, duplicator |-> FALSE,
           texture |-> NullTexture, textures |-> 0, refs |-> 1, updated |-> FALSE,
           hdr |-> FALSE, sdr_white_nits |-> 80, color_space |-> "GS_CS_SRGB",
           formats |-> {}, frameHeld |-> FALSE, provider |-> <<>>,
           displayWindow |-> NullWindow, displaySwapChain |-> NullSwapChain],
          reg, c, w)

\* the static `registered` after a construction attempt that got as far as
\* CreateDisplayWindow
RegisteredAfter(reg, c, w) ==
    IF get_monitor(c.enum) = "true" /\ (c.output5 \/ c.output1) /\ c.dupOk
    THEN RegisterDisplayWindowClass(reg, w.regOk)
    ELSE reg

(***************************************************************************)
(* The registry.                                                           *)
(***************************************************************************)
Registered(i) == i \in DOMAIN instances

\* mutant: the sharing branch forgets refs++
ShareExisting_NoIncrement(d) == d

\* the branch of device_duplicator_create that finds an entry
ShareExisting(d) == [d EXCEPT !.refs = @ + 1]

\* instances[monitor_idx] = duplicator
InsertInstance(m, monitor_idx, d) ==
    [i \in DOMAIN m \cup {monitor_idx} |-> IF i = monitor_idx THEN d ELSE m[i]]

\* mutant: the entry is inserted before the constructor has returned
CreateResult_InsertsFirst(m, monitor_idx, id, reg, c, w) ==
    IF monitor_idx \in DOMAIN m
    THEN [instances |-> [m EXCEPT ![monitor_idx] = ShareExisting(m[monitor_idx])],
          ret |-> m[monitor_idx].id, constructed |-> FALSE]
    ELSE LET r == gs_duplicator(id, monitor_idx, reg, c, w)
         IN  [instances |-> InsertInstance(m, monitor_idx, r.d),
              ret |-> IF r.thrown THEN NoSession ELSE id,
              constructed |-> ~r.thrown]

\* what device_duplicator_create does to the registry: the map afterwards,
\* the handle returned and whether a session was constructed
CreateResult(m, monitor_idx, id, reg, c, w) ==
    IF monitor_idx \in DOMAIN m
    THEN [instances |-> [m EXCEPT ![monitor_idx] = ShareExisting(m[monitor_idx])],
          ret |-> m[monitor_idx].id, constructed |-> FALSE]
    ELSE LET r == gs_duplicator(id, monitor_idx, reg, c, w)
         IN  IF r.thrown
             THEN [instances |-> m, ret |-> NoSession, constructed |-> FALSE]
             ELSE [instances |-> InsertInstance(m, monitor_idx, r.d),
                   ret |-> id, constructed |-> TRUE]

device_duplicator_create(monitor_idx, c, w) ==
    /\ Registered(monitor_idx) => instances[monitor_idx].refs < MaxRefs
    /\ ~Registered(monitor_idx) => created[monitor_idx] < MaxCreated
    /\ LET id == <<monitor_idx, created[monitor_idx] + 1>>
           r == CreateResult(instances, monitor_idx, id, registered, c, w)
       IN  /\ instances' = r.instances
           /\ registered' = IF Registered(monitor_idx) THEN registered
                            ELSE RegisteredAfter(registered, c, w)
           /\ created' = IF r.constructed
                         THEN [created EXCEPT ![monitor_idx] = @ + 1]
                         ELSE created
           /\ alive' = IF r.constructed THEN alive \cup {id} ELSE alive
           /\ held' = IF r.ret = NoSession THEN held
                      ELSE [held EXCEPT ![monitor_idx] = @ + 1]
           /\ lastOp' = [op |-> "create", idx |-> monitor_idx, ret |-> r.ret,
                         constructed |-> r.constructed]
    /\ UNCHANGED <<device, called>>

\* instances.erase(duplicator->idx); delete duplicator
EraseInstance(m, d) == [i \in DOMAIN m \ {d.idx} |-> m[i]]

\* one resource of a session going away, when the session holds it
Released(has, name) == IF has THEN <<name>> ELSE <<>>

\* mutant: the window is destroyed before the swap chain that presents to it
Destructor_WindowFirst(d) ==
    Released(d.texture # NullTexture, "texture")
        \o Released(d.displayWindow.hwnd, "displayWindow")
        \o Released(d.displaySwapChain.ptr, "displaySwapChain")
        \o Released(d.duplicator, "duplicator")

\* gs_duplicator::~gs_duplicator: the resources released, in order.  The body
\* deletes the texture, the swap chain and the window; the member duplicator
\* (a ComPtr) is released by its own destructor once the body has run.
Destructor(d) ==
    Released(d.texture # NullTexture, "texture")
        \o Released(d.displaySwapChain.ptr, "displaySwapChain")
        \o Released(d.displayWindow.hwnd, "displayWindow")
        \o Released(d.duplicator, "duplicator")

\* mutant: the entry is erased one release late
DestroyResult_Late(m, i) ==
    LET d == [m[i] EXCEPT !.refs = @ - 1]
    IN  IF d.refs < 0
        THEN [instances |-> EraseInstance(m, d), deleted |-> TRUE,
              released |-> Destructor(d)]
        ELSE [instances |-> [m EXCEPT ![i] = d], deleted |-> FALSE,
              released |-> <<>>]

\* what gs_duplicator_destroy does to the registry, and what the deleted
\* session released
DestroyResult(m, i) ==
    LET d == [m[i] EXCEPT !.refs = @ - 1]
    IN  IF d.refs = 0
        THEN [instances |-> EraseInstance(m, d), deleted |-> TRUE,
              released |-> Destructor(d)]
        ELSE [instances |-> [m EXCEPT ![i] = d], deleted |-> FALSE,
              released |-> <<>>]

gs_duplicator_destroy(i) ==
    /\ Registered(i)
    /\ LET r == DestroyResult(instances, i)
       IN  /\ instances' = r.instances
           /\ alive' = IF r.deleted THEN alive \ {instances[i].id} ELSE alive
           /\ held' = [held EXCEPT ![i] = @ - 1]
           /\ called' = IF r.deleted THEN called \ {i} ELSE called
           /\ lastOp' = [op |-> "destroy", idx |-> i, id |-> instances[i].id,
                         deleted |-> r.deleted, released |-> r.released,
                         afterLoss |-> /\ lastOp.op = "update" /\ lastOp.idx = i
                                       /\ ~lastOp.ret]
    /\ UNCHANGED <<registered, device, created>>

\* mutant: the loop stops after the first entry
ResetAll_FirstOnly(m) ==
    [i \in DOMAIN m |->
        IF \A j \in DOMAIN m : i <= j THEN [m[i] EXCEPT !.updated = FALSE] ELSE m[i]]

\* the loop of reset_duplicators
ResetAll(m) == [i \in DOMAIN m |-> [m[i] EXCEPT !.updated = FALSE]]

reset_duplicators ==
    /\ instances' = ResetAll(instances)
    /\ called' = {}
    /\ lastOp' = [op |-> "reset"]
    /\ UNCHANGED <<registered, device, created, held, alive>>

(***************************************************************************)
(* The preview presenter.                                                  *)
(***************************************************************************)
MainSwapChain == <<-1, 0>>

\* gs_swap_chain::Resize: the render target view is dropped before the
\* buffers are resized, and it is rebuilt only when the resize succeeds
Resize(sc, cx, cy, resizeOk) ==
    IF resizeOk
    THEN [sc EXCEPT !.width = cx, !.height = cy, !.renderTarget = TRUE]
    ELSE [sc EXCEPT !.renderTarget = FALSE]

Presented(d, dev, calls) == [d |-> d, device |-> dev, calls |-> calls]

\* what PresentFrame restores before it returns
RestoreDevice(dev, prev) == [dev EXCEPT !.curSwapChain = prev.curSwapChain]

\* mutant: the swap chain is resized to the size of the cached texture
PresentFrame_ResizeToFrame(d, dev, resizeOk) ==
    IF ~d.displayWindow.hwnd \/ ~d.displaySwapChain.ptr \/ d.texture = NullTexture
    THEN Presented(d, dev, <<>>)
    ELSE IF ~d.displayWindow.visible THEN Presented(d, dev, <<>>)
    ELSE LET windowWidth == d.displayWindow.client.width
             windowHeight == d.displayWindow.client.height
             sc == d.displaySwapChain
             needResize == windowWidth # sc.width \/ windowHeight # sc.height
             sc2 == IF needResize
                    THEN Resize(sc, d.texture.width, d.texture.height, resizeOk)
                    ELSE sc
             d2 == [d EXCEPT !.displaySwapChain = sc2]
             calls == IF needResize THEN <<"Resize">> ELSE <<>>
             loaded == [dev EXCEPT
                          !.curSwapChain = d.id,
                          !.viewport = [x |-> 0, y |-> 0,
                                        cx |-> sc2.width, cy |-> sc2.height]]
         IN  IF windowWidth = 0 \/ windowHeight = 0 THEN Presented(d, dev, <<>>)
             ELSE IF needResize /\ ~resizeOk THEN Presented(d2, dev, calls)
             ELSE IF ~sc2.renderTarget
             THEN Presented(d2, RestoreDevice(loaded, dev), calls)
             ELSE Presented(d2,
                            RestoreDevice([loaded EXCEPT !.renderTarget = d.id], dev),
                            calls \o <<"ClearRenderTargetView", "OMSetRenderTargets",
                                       "CopySubresourceRegion", "Present">>)

\* mutant: the check for an empty client area is missing
PresentFrame_NoEmptyCheck(d, dev, resizeOk) ==
    IF ~d.displayWindow.hwnd \/ ~d.displaySwapChain.ptr \/ d.texture = NullTexture
    THEN Presented(d, dev, <<>>)
    ELSE IF ~d.displayWindow.visible THEN Presented(d, dev, <<>>)
    ELSE LET windowWidth == d.displayWindow.client.width
             windowHeight == d.displayWindow.client.height
             sc == d.displaySwapChain
             needResize == windowWidth # sc.width \/ windowHeight # sc.height
             sc2 == IF needResize
                    THEN Resize(sc, windowWidth, windowHeight, resizeOk)
                    ELSE sc
             d2 == [d EXCEPT !.displaySwapChain = sc2]
             calls == IF needResize THEN <<"Resize">> ELSE <<>>
             loaded == [dev EXCEPT
                          !.curSwapChain = d.id,
                          !.viewport = [x |-> 0, y |-> 0,
                                        cx |-> sc2.width, cy |-> sc2.height]]
         IN  IF needResize /\ ~resizeOk THEN Presented(d2, dev, calls)
             ELSE IF ~sc2.renderTarget
             THEN Presented(d2, RestoreDevice(loaded, dev), calls)
             ELSE Presented(d2,
                            RestoreDevice([loaded EXCEPT !.renderTarget = d.id], dev),
                            calls \o <<"ClearRenderTargetView", "OMSetRenderTargets",
                                       "CopySubresourceRegion", "Present">>)

\* gs_duplicator::PresentFrame: the session, the device state and the GPU
\* calls made, in order
PresentFrame(d, dev, resizeOk) ==
    IF ~d.displayWindow.hwnd \/ ~d.displaySwapChain.ptr \/ d.texture = NullTexture
    THEN Presented(d, dev, <<>>)
    ELSE IF ~d.displayWindow.visible THEN Presented(d, dev, <<>>)
    ELSE LET windowWidth == d.displayWindow.client.width
             windowHeight == d.displayWindow.client.height
             sc == d.displaySwapChain
             needResize == windowWidth # sc.width \/ windowHeight # sc.height
             sc2 == IF needResize
                    THEN Resize(sc, windowWidth, windowHeight, resizeOk)
                    ELSE sc
             d2 == [d EXCEPT !.displaySwapChain = sc2]
             calls == IF needResize THEN <<"Resize">> ELSE <<>>
             loaded == [dev EXCEPT
                          !.curSwapChain = d.id,
                          !.viewport = [x |-> 0, y |-> 0,
                                        cx |-> sc2.width, cy |-> sc2.height]]
         IN  IF windowWidth = 0 \/ windowHeight = 0 THEN Presented(d, dev, <<>>)
             ELSE IF needResize /\ ~resizeOk THEN Presented(d2, dev, calls)
             ELSE IF ~sc2.renderTarget
             THEN Presented(d2, RestoreDevice(loaded, dev), calls)
             ELSE Presented(d2,
                            RestoreDevice([loaded EXCEPT !.renderTarget = d.id], dev),
                            calls \o <<"ClearRenderTargetView", "OMSetRenderTargets",
                                       "CopySubresourceRegion", "Present">>)

(***************************************************************************)
(* The frame update.                                                       *)
(***************************************************************************)
\* gs_texture_create: a new texture object, or null when the allocation fails
gs_texture_create(d, width, height, format, allocOk) ==
    IF allocOk
    THEN [id |-> d.textures + 1, width |-> width, height |-> height,
          format |-> format]
    ELSE NullTexture

\* mutant: the comparison leaves out the format
NeedsNewTexture_SizeOnly(d, desc) ==
    \/ d.texture = NullTexture
    \/ d.texture.width # desc.Width
    \/ d.texture.height # desc.Height

\* the condition under which copy_texture replaces the cached texture
NeedsNewTexture(d, desc) ==
    LET general_format == gs_generalize_format(ConvertDXGITextureFormat(desc.Format))
    IN  \/ d.texture = NullTexture
        \/ d.texture.width # desc.Width
        \/ d.texture.height # desc.Height
        \/ d.texture.format # general_format

ColorSpaceOf(hdr, Format) ==
    IF hdr THEN "GS_CS_709_SCRGB"
    ELSE IF Format = "DXGI_FORMAT_R16G16B16A16_FLOAT" THEN "GS_CS_SRGB_16F"
    ELSE "GS_CS_SRGB"

\* copy_texture: the session afterwards and whether CopyResource ran
copy_texture(d, desc, allocOk) ==
    LET general_format == gs_generalize_format(ConvertDXGITextureFormat(desc.Format))
        t == gs_texture_create(d, desc.Width, desc.Height, general_format, allocOk)
        d2 == IF NeedsNewTexture(d, desc)
              THEN [d EXCEPT !.texture = t,
                             !.textures = IF t = NullTexture THEN @ ELSE @ + 1,
                             !.color_space = ColorSpaceOf(d.hdr, desc.Format)]
              ELSE d
    IN  [d |-> d2, copied |-> d2.texture # NullTexture]

\* the provider: a frame is outstanding from a successful AcquireNextFrame
\* to the next ReleaseFrame; provider lists the calls of the running update
AcquireNextFrame(d, hr) ==
    [d EXCEPT !.frameHeld = @ \/ (hr = "S_OK"),
              !.provider = Append(@, "AcquireNextFrame")]
ReleaseFrame(d) ==
    [d EXCEPT !.frameHeld = FALSE, !.provider = Append(@, "ReleaseFrame")]

NoDesc == [Width |-> 0, Height |-> 0, Format |-> "DXGI_FORMAT_UNKNOWN"]

Updated(d, dev, ret, polled, hr, desc, copied, calls) ==
    [d |-> d, device |-> dev, ret |-> ret, polled |-> polled, hr |-> hr,
     desc |-> desc, copied |-> copied, calls |-> calls]

\* mutant: the early return after a failed QueryInterface skips ReleaseFrame
QueryFailed_NoRelease(d, dev, desc) ==
    Updated(d, dev, TRUE, TRUE, "S_OK", NoDesc, FALSE, <<>>)

\* the path of gs_duplicator_update_frame after a failed QueryInterface
QueryFailed(d, dev, desc) ==
    Updated(ReleaseFrame(d), dev, TRUE, TRUE, "S_OK", NoDesc, FALSE, <<>>)

\* the path of gs_duplicator_update_frame with the frame's texture in hand
FrameAcquired(d, dev, desc, allocOk, resizeOk) ==
    LET c == copy_texture(d, desc, allocOk)
        d2 == [ReleaseFrame(c.d) EXCEPT !.updated = TRUE]
        p == IF d2.displayWindow.hwnd /\ d2.displaySwapChain.ptr
             THEN PresentFrame(d2, dev, resizeOk)
             ELSE Presented(d2, dev, <<>>)
    IN  Updated(p.d, p.device, TRUE, TRUE, "S_OK", desc, c.copied, p.calls)

\* mutant: every failed poll is reported as a lost session
Polled_Escalates(d, dev, hr, desc, queryOk, allocOk, resizeOk) ==
    IF hr = "DXGI_ERROR_WAIT_TIMEOUT"
    THEN Updated(d, dev, TRUE, TRUE, hr, NoDesc, FALSE, <<>>)
    ELSE IF hr # "S_OK"
    THEN Updated(d, dev, FALSE, TRUE, hr, NoDesc, FALSE, <<>>)
    ELSE IF ~queryOk THEN QueryFailed(d, dev, desc)
    ELSE FrameAcquired(d, dev, desc, allocOk, resizeOk)

\* mutant: a poll that timed out still marks the session as updated
Polled_TimeoutMarks(d, dev, hr, desc, queryOk, allocOk, resizeOk) ==
    IF hr = "DXGI_ERROR_ACCESS_LOST"
    THEN Updated(d, dev, FALSE, TRUE, hr, NoDesc, FALSE, <<>>)
    ELSE IF hr = "DXGI_ERROR_WAIT_TIMEOUT"
    THEN Updated([d EXCEPT !.updated = TRUE], dev, TRUE, TRUE, hr, NoDesc, FALSE, <<>>)
    ELSE IF hr # "S_OK"
    THEN Updated(d, dev, TRUE, TRUE, hr, NoDesc, FALSE, <<>>)
    ELSE IF ~queryOk THEN QueryFailed(d, dev, desc)
    ELSE FrameAcquired(d, dev, desc, allocOk, resizeOk)

\* the branch on the HRESULT of AcquireNextFrame
Polled(d, dev, hr, desc, queryOk, allocOk, resizeOk) ==
    IF hr = "DXGI_ERROR_ACCESS_LOST"
    THEN Updated(d, dev, FALSE, TRUE, hr, NoDesc, FALSE, <<>>)
    ELSE IF hr = "DXGI_ERROR_WAIT_TIMEOUT"
    THEN Updated(d, dev, TRUE, TRUE, hr, NoDesc, FALSE, <<>>)
    ELSE IF hr # "S_OK"
    THEN Updated(d, dev, TRUE, TRUE, hr, NoDesc, FALSE, <<>>)
    ELSE IF ~queryOk THEN QueryFailed(d, dev, desc)
    ELSE FrameAcquired(d, dev, desc, allocOk, resizeOk)

\* the condition of the re-present shortcut
RePresent(d) ==
    d.displayWindow.hwnd /\ d.displaySwapChain.ptr /\ d.texture # NullTexture
        /\ d.updated

UpdateResult(d, dev, hr, desc, queryOk, allocOk, resizeOk) ==
    IF ~d.duplicator
    THEN Updated(d, dev, FALSE, FALSE, "none", NoDesc, FALSE, <<>>)
    ELSE IF RePresent(d)
    THEN LET p == PresentFrame(d, dev, resizeOk)
         IN  Updated(p.d, p.device, TRUE, FALSE, "none", NoDesc, FALSE, p.calls)
    ELSE Polled(AcquireNextFrame(d, hr), dev, hr, desc, queryOk, allocOk, resizeOk)

gs_duplicator_update_frame(i, hr, desc, queryOk, allocOk, resizeOk) ==
    /\ Registered(i)
    /\ desc.Format \in instances[i].formats
    /\ LET r == UpdateResult(instances[i], device, hr, desc, queryOk, allocOk,
                             resizeOk)
       IN  /\ r.d.textures <= MaxTextures
           /\ instances' = [instances EXCEPT ![i] = [r.d EXCEPT !.provider = <<>>]]
           /\ device' = r.device
           /\ called' = called \cup {i}
           /\ lastOp' = [op |-> "update", idx |-> i, ret |-> r.ret,
                         polled |-> r.polled, hr |-> r.hr, desc |-> r.desc,
                         provider |-> r.d.provider, copied |-> r.copied,
                         calls |-> r.calls]
    /\ UNCHANGED <<registered, created, held, alive>>

(***************************************************************************)
(* The preview window.                                                     *)
(***************************************************************************)
\* gs_duplicator_show_window
gs_duplicator_show_window(i, show) ==
    /\ Registered(i)
    /\ instances' = [instances EXCEPT
                        ![i] = IF ~@.displayWindow.hwnd THEN @
                               ELSE [@ EXCEPT !.displayWindow.visible = show]]
    /\ lastOp' = [op |-> "show_window"]
    /\ UNCHANGED <<registered, device, created, held, alive, called>>

\* DisplayWindowProc: WM_CLOSE hides the window
WindowClose(i) ==
    /\ Registered(i)
    /\ instances[i].displayWindow.hwnd
    /\ instances' = [instances EXCEPT ![i].displayWindow.visible = FALSE]
    /\ lastOp' = [op |-> "WM_CLOSE"]
    /\ UNCHANGED <<registered, device, created, held, alive, called>>

\* DisplayWindowProc: WM_SIZE does nothing; the client area is what the
\* user made it
WindowSize(i, client) ==
    /\ Registered(i)
    /\ instances[i].displayWindow.hwnd
    /\ instances' = [instances EXCEPT ![i].displayWindow.client = client]
    /\ lastOp' = [op |-> "WM_SIZE"]
    /\ UNCHANGED <<registered, device, created, held, alive, called>>

(***************************************************************************)
(* Specification.                                                          *)
(***************************************************************************)
Init ==
    /\ instances = <<>>
    /\ registered = FALSE
    /\ device = [curSwapChain |-> MainSwapChain,
                 viewport |-> [x |-> 0, y |-> 0,
                               cx |-> DesktopSize.width, cy |-> DesktopSize.height],
                 renderTarget |-> MainSwapChain]
    /\ created = [i \in MonitorIdx |-> 0]
    /\ held = [i \in MonitorIdx |-> 0]
    /\ alive = {}
    /\ called = {}
    /\ lastOp = [op |-> "init"]

AnyCaptureEnv == CHOOSE c \in CaptureEnvAny : TRUE
AnyWindowEnv == CHOOSE w \in WindowEnvs : TRUE

\* does Start reach CreateDisplayWindow under c
Duplicates(c) == get_monitor(c.enum) = "true" /\ (c.output5 \/ c.output1) /\ c.dupOk

\* the inputs of one update call: only what its path reads in the current
\* state varies
UpdateInput(hr, desc, queryOk, allocOk, resizeOk) ==
    [hr |-> hr, desc |-> desc, queryOk |-> queryOk, allocOk |-> allocOk,
     resizeOk |-> resizeOk]

UpdateInputs(i, H, S, Q, A, R) ==
    IF RePresent(instances[i])
    THEN {UpdateInput("S_OK", AnyFrame, TRUE, TRUE, r) : r \in R}
    ELSE {UpdateInput(h, AnyFrame, TRUE, TRUE, TRUE) : h \in H \ {"S_OK"}}
         \cup {UpdateInput("S_OK", AnyFrame, q, TRUE, TRUE) : q \in Q \ {TRUE}}
         \cup {UpdateInput("S_OK", f, TRUE, a, r) :
                    f \in {g \in S : g.Format \in instances[i].formats},
                    a \in A, r \in R}

\* the operations, with the sets their inputs are drawn from
Create(I, C, W) ==
    \E i \in I :
        \E c \in IF Registered(i) THEN {AnyCaptureEnv} ELSE CaptureEnvs(i) \cap C :
            \E w \in IF Registered(i) \/ ~Duplicates(c) THEN {AnyWindowEnv} ELSE W[i] :
                device_duplicator_create(i, c, w)

Destroy(I) == \E i \in I : gs_duplicator_destroy(i)

Reset == reset_duplicators

Update(I, H, S, Q, A, R) ==
    \E i \in I \cap DOMAIN instances :
        \E u \in UpdateInputs(i, H, S, Q, A, R) :
            gs_duplicator_update_frame(i, u.hr, u.desc, u.queryOk, u.allocOk,
                                       u.resizeOk)

ShowWindow(I) ==
    \E i \in I, show \in BOOLEAN : gs_duplicator_show_window(i, show)

Close(I) == \E i \in I : WindowClose(i)

Size(I, C) == \E i \in I, client \in C : WindowSize(i, client)

\* the input sets of the specifications below
FirstOutput == {0}
\* output 0 and an index the adapter does not enumerate
FirstOutputOrNone == {0, 2}
\* AcquireNextFrame delivers a frame or times out
FrameOrTimeout == {"S_OK", "DXGI_ERROR_WAIT_TIMEOUT"}
\* a call of the environment that succeeds
Succeeds == {TRUE}
OneFrame == {AnyFrame}
AllFrames == FrameDescs(supportedFormats)

\* the registry: every monitor index, one frame descriptor, polls that
\* succeed or time out, a preview on output 0 only, no window events
NoHdr == {c \in CaptureEnvAny : ~c.output1 /\ ~c.info.hdr}
FixedClient == {w \in WindowEnvs : w.client = FirstClient}
NoWindow == {w \in FixedClient : ~w.swapOk}
PreviewOnFirst == [i \in MonitorIdx |-> IF i = 0 THEN FixedClient ELSE NoWindow]
FixedClientOn == [i \in MonitorIdx |-> FixedClient]
AnyWindowOn == [i \in MonitorIdx |-> WindowEnvs]

Next ==
    \/ Create(MonitorIdx, NoHdr, PreviewOnFirst)
    \/ Destroy(MonitorIdx)
    \/ Reset
    \/ Update(MonitorIdx, FrameOrTimeout, OneFrame, Succeeds, Succeeds, Succeeds)

Spec == Init /\ [][Next]_vars

\* the texture cache: one output, every poll result, every frame descriptor,
\* failing QueryInterface and allocation, no window events
NextFrames ==
    \/ Create(FirstOutputOrNone, CaptureEnvAny, FixedClientOn)
    \/ Destroy(FirstOutput)
    \/ Reset
    \/ Update(FirstOutput, PollResults, AllFrames, BOOLEAN, BOOLEAN, Succeeds)

SpecFrames == Init /\ [][NextFrames]_vars

\* the preview: one output, frames of two sizes, every window event,
\* failing swap chain resize
TwoFrames == {f \in FrameDescs({FORMAT_BGRA8}) : f.Height = 1}

NextPreview ==
    \/ Create(FirstOutputOrNone, NoHdr, AnyWindowOn)
    \/ Destroy(FirstOutput)
    \/ Reset
    \/ Update(FirstOutput, PollResults, TwoFrames, Succeeds, Succeeds, BOOLEAN)
    \/ ShowWindow(FirstOutput)
    \/ Close(FirstOutput)
    \/ Size(FirstOutput, ClientSizes)

SpecPreview == Init /\ [][NextPreview]_vars

\* the color metadata: one output, every way Start can go, frames of one
\* size in both formats, the window shown and hidden
SameSizeFrames == {f \in FrameDescs(supportedFormats) : f.Width = 1 /\ f.Height = 1}

NextColor ==
    \/ Create(FirstOutputOrNone, CaptureEnvAny, FixedClientOn)
    \/ Destroy(FirstOutput)
    \/ Reset
    \/ Update(FirstOutput, FrameOrTimeout, SameSizeFrames, Succeeds, Succeeds, Succeeds)
    \/ ShowWindow(FirstOutput)
    \/ Close(FirstOutput)

SpecColor == Init /\ [][NextColor]_vars

(***************************************************************************)
(* The claims.                                                             *)
(***************************************************************************)
IsCreate(i) == lastOp'.op = "create" /\ lastOp'.idx = i
IsUpdate(i) == lastOp'.op = "update" /\ lastOp'.idx = i

\* C1: device_duplicator_create on an index that has an entry returns that
\* session, adds exactly 1 to its refs and constructs nothing; a second
\* create right after the constructing one returns the same session and
\* leaves refs = 2.
C1_AcquireShares ==
    [][\A i \in MonitorIdx :
        /\ (IsCreate(i) /\ Registered(i))
            => /\ lastOp'.ret = instances[i].id
               /\ ~lastOp'.constructed
               /\ instances' = [instances EXCEPT ![i].refs = @ + 1]
               /\ created' = created /\ alive' = alive
        /\ (IsCreate(i) /\ lastOp.op = "create" /\ lastOp.idx = i
                /\ lastOp.constructed)
            => /\ lastOp'.ret = lastOp.ret
               /\ instances'[i].refs = 2]_vars

C1_Witness ==
    /\ lastOp.op = "create" /\ ~lastOp.constructed /\ lastOp.ret # NoSession
    /\ instances[lastOp.idx].id = lastOp.ret
    /\ instances[lastOp.idx].refs = 2

\* C2: the registry holds an entry for index i exactly when more handles of
\* that session were handed out than released, the entry's refs is that
\* difference (so at least 1), and a session is deleted exactly by the
\* destroy call that finds refs = 1.
C2_RefsIsHeld ==
    /\ [](\A i \in MonitorIdx :
            /\ Registered(i) <=> held[i] > 0
            /\ Registered(i) => instances[i].refs = held[i] /\ instances[i].refs >= 1
            /\ Registered(i) => instances[i].idx = i)
    /\ [](alive = {instances[i].id : i \in DOMAIN instances})
    /\ [][\A i \in DOMAIN instances :
            (instances[i].id \notin alive')
                <=> (lastOp'.op = "destroy" /\ lastOp'.idx = i
                        /\ instances[i].refs = 1)]_vars

C2_Witness ==
    /\ lastOp.op = "destroy" /\ lastOp.deleted
    /\ lastOp.id \notin alive
    /\ ~Registered(lastOp.idx)
    /\ \E j \in DOMAIN instances : instances[j].refs = 2

\* C3: when the constructor throws in device_duplicator_create (index out
\* of range, duplication refused, or any other exception of Start), the call
\* returns null and the map instances is what it was before the call.
C3_FailedCreateLeavesRegistry ==
    [][\A i \in MonitorIdx :
        (IsCreate(i) /\ ~Registered(i))
            => \/ lastOp'.ret = NoSession /\ instances' = instances
               \/ \A c \in CaptureEnvs(i) :
                    \A w \in IF Duplicates(c) THEN WindowEnvs ELSE {AnyWindowEnv} :
                        ~ /\ \/ i \notin Outputs
                             \/ ~c.dupOk
                             \/ gs_duplicator(<<i, created[i] + 1>>, i, registered,
                                              c, w).thrown
                          /\ device_duplicator_create(i, c, w)]_vars

C3_Witness ==
    /\ lastOp.op = "create" /\ lastOp.ret = NoSession
    /\ lastOp.idx \in Outputs
    /\ ~Registered(lastOp.idx)
    /\ \E j \in DOMAIN instances : instances[j].refs = 2

\* C4: gs_duplicator_update_frame on a registered session returns false
\* exactly when it polled the provider and the poll reported access lost;
\* it returns true on a timeout, on any other failure and on success.
C4_FalseOnlyOnAccessLost ==
    lastOp.op = "update"
        => /\ lastOp.ret = FALSE
                <=> (lastOp.polled /\ lastOp.hr = "DXGI_ERROR_ACCESS_LOST")
           /\ (lastOp.polled /\ lastOp.hr \in {"DXGI_ERROR_WAIT_TIMEOUT", "E_FAIL", "S_OK"})
                => lastOp.ret = TRUE

C4_Witness ==
    /\ lastOp.op = "update" /\ lastOp.polled
    /\ lastOp.hr = "DXGI_ERROR_ACCESS_LOST" /\ lastOp.ret = FALSE
    /\ instances[lastOp.idx].texture # NullTexture

\* the cached texture t is a texture for a frame of descriptor desc
Matches(t, desc) ==
    /\ t # NullTexture
    /\ t.width = desc.Width /\ t.height = desc.Height
    /\ t.format = gs_generalize_format(ConvertDXGITextureFormat(desc.Format))

\* C5: after every update that returns true the cached texture is the one
\* cached before the call, or a valid texture matching the acquired frame.
C5_TextureKeptOrValid ==
    [][\A i \in DOMAIN instances :
        (IsUpdate(i) /\ lastOp'.ret)
            => \/ instances'[i].texture = instances[i].texture
               \/ Matches(instances'[i].texture, lastOp'.desc)]_vars

\* C6: an update releases the provider's frame exactly once when its
\* AcquireNextFrame succeeded (also when QueryInterface then fails) and
\* never otherwise, so no session holds a frame between update calls.
C6_FrameReleasedOnce ==
    /\ \A i \in DOMAIN instances : ~instances[i].frameHeld
    /\ lastOp.op = "update"
        => lastOp.provider =
             IF ~lastOp.polled THEN <<>>
             ELSE IF lastOp.hr = "S_OK" THEN <<"AcquireNextFrame", "ReleaseFrame">>
             ELSE <<"AcquireNextFrame">>

C6_Witness ==
    /\ lastOp.op = "update" /\ lastOp.polled /\ lastOp.hr = "S_OK"
    /\ lastOp.desc = NoDesc
    /\ lastOp.provider = <<"AcquireNextFrame", "ReleaseFrame">>

\* the frame of descriptor desc differs from the cached texture t in width,
\* height or generalized format, or there is no texture
Differs(t, desc) ==
    \/ t = NullTexture
    \/ t.width # desc.Width
    \/ t.height # desc.Height
    \/ t.format # gs_generalize_format(ConvertDXGITextureFormat(desc.Format))

\* an update of session i that got the frame's texture interface
IsFrame(i) ==
    IsUpdate(i) /\ lastOp'.polled /\ lastOp'.hr = "S_OK" /\ lastOp'.desc # NoDesc

\* C7: the cached texture gets a new identity exactly when the
\* frame differs from it (or none exists); otherwise it is kept and copied
\* into; after a copy it has the frame's width, height and format.
C7_NewIdentityIffDiffers ==
    [][\A i \in DOMAIN instances :
        IsFrame(i)
            => LET old == instances[i].texture
                   new == instances'[i].texture
               IN  /\ (new # NullTexture /\ new.id # old.id)
                        <=> Differs(old, lastOp'.desc)
                   /\ ~Differs(old, lastOp'.desc) => new = old /\ lastOp'.copied
                   /\ lastOp'.copied => Matches(new, lastOp'.desc)]_vars

\* C8: an update whose poll times out or fails with an error other than
\* access lost changes nothing: not the session, not the registry, not the
\* device, and it makes no GPU call.
C8_TransientPollIsNoOp ==
    [][(lastOp'.op = "update" /\ lastOp'.polled
            /\ lastOp'.hr \in {"DXGI_ERROR_WAIT_TIMEOUT", "E_FAIL"})
        => /\ instances' = instances
           /\ device' = device
           /\ registered' = registered
           /\ lastOp'.calls = <<>>
           /\ ~lastOp'.copied]_vars

C8_Witness ==
    /\ lastOp.op = "update" /\ lastOp.polled /\ lastOp.hr = "DXGI_ERROR_WAIT_TIMEOUT"
    /\ instances[lastOp.idx].texture # NullTexture
    /\ instances[lastOp.idx].displayWindow.hwnd
    /\ instances[lastOp.idx].refs = 2

\* C9: reset_duplicators clears updated in every registered session and
\* changes nothing else, and the first update of a session after a reset
\* polls the provider.
C9_ResetClearsFreshness ==
    [][/\ lastOp'.op = "reset"
            => /\ DOMAIN instances' = DOMAIN instances
               /\ \A i \in DOMAIN instances :
                    instances'[i] = [instances[i] EXCEPT !.updated = FALSE]
               /\ device' = device /\ registered' = registered
       /\ \A i \in DOMAIN instances :
            (IsUpdate(i) /\ i \notin called) => lastOp'.polled]_vars

C9_Witness ==
    /\ lastOp.op = "update" /\ lastOp.polled
    /\ called = {lastOp.idx}
    /\ LET d == instances[lastOp.idx]
       IN  d.displayWindow.hwnd /\ d.texture # NullTexture /\ ~d.updated
    /\ \E j \in DOMAIN instances : j # lastOp.idx /\ ~instances[j].updated
            /\ instances[j].texture # NullTexture

\* C10: every update leaves the device's current swap chain, render target
\* and viewport as they were before the call, whichever way PresentFrame
\* returns.
C10_DeviceStateRestored ==
    [][lastOp'.op = "update" => device' = device]_vars

\* the place of resource x in the sequence s of releases, 0 when absent
Pos(s, x) == IF \E k \in 1..Len(s) : s[k] = x
             THEN CHOOSE k \in 1..Len(s) : s[k] = x
             ELSE 0

\* x and y are both in s, and x does not come before y
NotBefore(s, x, y) == Pos(s, x) > 0 /\ Pos(s, y) > 0 => Pos(s, x) > Pos(s, y)

\* C11 as stated: the release that brings refs to 0 releases the capture
\* handle first, then the cached texture, then the preview resources.
C11_CaptureHandleFirst ==
    (lastOp.op = "destroy" /\ lastOp.deleted)
        => /\ \A x \in {"texture", "displaySwapChain", "displayWindow"} :
                NotBefore(lastOp.released, x, "duplicator")
           /\ \A x \in {"displaySwapChain", "displayWindow"} :
                NotBefore(lastOp.released, x, "texture")

\* C11 amended: the release that brings refs to 0 releases each resource the
\* session holds exactly once, in the order cached texture, presentation
\* surface, window, and the capture handle last; a release that leaves refs
\* above 0 releases nothing.
C11_CaptureHandleLast ==
    [][\A i \in DOMAIN instances :
        (lastOp'.op = "destroy" /\ lastOp'.idx = i)
            => LET d == instances[i]
                   s == lastOp'.released
                   has == [x \in {"texture", "displaySwapChain", "displayWindow",
                                  "duplicator"} |->
                            CASE x = "texture" -> d.texture # NullTexture
                              [] x = "displaySwapChain" -> d.displaySwapChain.ptr
                              [] x = "displayWindow" -> d.displayWindow.hwnd
                              [] x = "duplicator" -> d.duplicator]
               IN  IF d.refs # 1 THEN s = <<>> /\ ~lastOp'.deleted
                   ELSE /\ lastOp'.deleted
                        /\ \A x \in DOMAIN has :
                            Cardinality({k \in 1..Len(s) : s[k] = x})
                                = IF has[x] THEN 1 ELSE 0
                        /\ NotBefore(s, "displaySwapChain", "texture")
                        /\ NotBefore(s, "displayWindow", "displaySwapChain")
                        /\ NotBefore(s, "displayWindow", "texture")
                        /\ \A x \in {"texture", "displaySwapChain", "displayWindow"} :
                            NotBefore(s, "duplicator", x)
                        /\ Len(s) > 0 /\ s[Len(s)] = "duplicator"]_vars

C11_Witness ==
    /\ lastOp.op = "destroy" /\ lastOp.deleted
    /\ lastOp.released = <<"texture", "displaySwapChain", "displayWindow", "duplicator">>
    /\ \E j \in DOMAIN instances : instances[j].refs = 2

\* the preview window of session d shows nothing: hidden, or no client area
HiddenOrEmpty(d) ==
    \/ ~d.displayWindow.visible
    \/ d.displayWindow.client.width = 0
    \/ d.displayWindow.client.height = 0

\* C12: an update of a session whose preview window is hidden or has a
\* client area of zero width or height makes no resize, clear, copy or
\* present, and leaves the presentation surface and the device as they were.
C12_HiddenOrEmptyIsNoOp ==
    [][\A i \in DOMAIN instances :
        (IsUpdate(i) /\ instances[i].displayWindow.hwnd
                /\ instances[i].displaySwapChain.ptr /\ HiddenOrEmpty(instances[i]))
            => /\ lastOp'.calls = <<>>
               /\ instances'[i].displaySwapChain = instances[i].displaySwapChain
               /\ instances'[i].displayWindow = instances[i].displayWindow
               /\ device' = device]_vars

\* a re-present on a visible window without client area, whose surface has
\* another size and has presented before
C12_Witness ==
    /\ lastOp.op = "update" /\ ~lastOp.polled /\ lastOp.ret
    /\ LET d == instances[lastOp.idx]
       IN  /\ d.displayWindow.hwnd /\ d.displaySwapChain.ptr
           /\ d.texture # NullTexture
           /\ d.displayWindow.visible
           /\ d.displayWindow.client.width = 0 \/ d.displayWindow.client.height = 0
           /\ d.displaySwapChain.width > 0
    /\ lastOp.calls = <<>>
    /\ device.renderTarget # MainSwapChain

\* C13: hdr and sdr_white_nits of a session are set by its construction and
\* by nothing else: no update, reset, preview call or sharing create changes
\* them.  A session duplicated without IDXGIOutput5 has hdr = false and
\* sdr_white_nits = 80; one duplicated with it has the values that
\* GetMonitorColorInfo reported to Start.
C13_ColorInfoFixedAtStart ==
    [][/\ \A i \in DOMAIN instances \cap DOMAIN instances' :
            instances'[i].id = instances[i].id
                => /\ instances'[i].hdr = instances[i].hdr
                   /\ instances'[i].sdr_white_nits = instances[i].sdr_white_nits
       /\ \A i \in MonitorIdx :
            (IsCreate(i) /\ lastOp'.constructed)
                => \A c \in {e \in CaptureEnvs(i) : Duplicates(e)} :
                     \A w \in WindowEnvs :
                        device_duplicator_create(i, c, w)
                            => LET d == instances'[i]
                               IN  /\ ~c.output5
                                        => ~d.hdr /\ d.sdr_white_nits = 80
                                   /\ (c.output5 /\ c.getDesc)
                                        => /\ d.hdr = c.info.hdr
                                           /\ d.sdr_white_nits = c.info.sdr_white_nits]_vars

\* an HDR session that has been shared, updated, reset and hidden
C13_Witness ==
    /\ Registered(0)
    /\ instances[0].hdr /\ instances[0].sdr_white_nits = 200
    /\ instances[0].refs = 2
    /\ instances[0].texture # NullTexture
    /\ instances[0].displayWindow.hwnd /\ ~instances[0].displayWindow.visible
    /\ lastOp.op = "reset"

\* C14: updated and the cached texture agree.  An update sets updated only
\* when that same call copied the acquired frame into a non-null cached
\* texture, so a session with updated = true has a cached texture, and the
\* session was updated since the last reset.
C14_FreshImpliesTexture ==
    [][\A i \in DOMAIN instances' :
        /\ instances'[i].updated
            => instances'[i].texture # NullTexture /\ i \in called'
        /\ (instances'[i].updated /\ (i \in DOMAIN instances => ~instances[i].updated))
            => IsUpdate(i) /\ lastOp'.copied]_vars

\* session d has a preview and a cached texture
HasPreviewAndFrame(d) ==
    d.displayWindow.hwnd /\ d.displaySwapChain.ptr /\ d.texture # NullTexture

\* the step is an update of session i during which the provider had a new
\* frame ready
FrameReady(i) ==
    \E r \in BOOLEAN, f \in TwoFrames :
        gs_duplicator_update_frame(i, "S_OK", f, TRUE, TRUE, r)

\* C15: an update of a session with a preview and a cached texture for which
\* the provider has no new frame re-presents the cached frame and returns
\* true; the re-present path leaves the cached texture and updated as they
\* were; and it is taken only when the provider has no new frame ready.
C15_RePresentOnlyWithoutNewFrame ==
    [][\A i \in DOMAIN instances :
        IsUpdate(i)
            => /\ (HasPreviewAndFrame(instances[i]) /\ ~HiddenOrEmpty(instances[i])
                        /\ ~FrameReady(i))
                    => lastOp'.ret /\ lastOp'.calls # <<>>
               /\ (~lastOp'.polled /\ lastOp'.ret)
                    => /\ instances'[i].texture = instances[i].texture
                       /\ instances'[i].updated = instances[i].updated
                       /\ ~FrameReady(i)]_vars

\* C16: between two resets a session acquires at most one frame: once an
\* update has acquired a frame (updated = true), later updates of that
\* session before the next reset do not poll the provider, with or without
\* a preview, whichever of the sharing callers makes them.
C16_OnePollPerCycle ==
    [][\A i \in DOMAIN instances :
        (IsUpdate(i) /\ instances[i].updated)
            => ~lastOp'.polled /\ lastOp'.provider = <<>>]_vars

\* the size of a swap chain or of a client area
SizeOf(r) == <<r.width, r.height>>

\* C17: when an update presents to a visible window with a client area
\* whose size differs from the swap chain's, Resize to the client size is the
\* first GPU call; when the resize fails nothing else is called and the
\* device is untouched; a present that reaches the copy has the swap chain
\* at the client size; and the swap chain never changes size for any other
\* reason, a frame of another size included.
C17_ResizeBeforeCopy ==
    [][\A i \in DOMAIN instances :
        IsUpdate(i)
            => LET d == instances[i]
                   sc == d.displaySwapChain
                   sc2 == instances'[i].displaySwapChain
                   client == d.displayWindow.client
                   calls == lastOp'.calls
                   differs == SizeOf(client) # SizeOf(sc)
                   presents ==
                        /\ d.displayWindow.hwnd /\ sc.ptr /\ ~HiddenOrEmpty(d)
                        /\ instances'[i].texture # NullTexture
                        /\ ~lastOp'.polled \/ lastOp'.copied
               IN  /\ (presents /\ differs)
                        => /\ Pos(calls, "Resize") = 1
                           /\ SizeOf(sc2) # SizeOf(client)
                                => /\ calls = <<"Resize">>
                                   /\ SizeOf(sc2) = SizeOf(sc)
                                   /\ device' = device
                   /\ ~(presents /\ differs)
                        => Pos(calls, "Resize") = 0 /\ SizeOf(sc2) = SizeOf(sc)
                   /\ Pos(calls, "CopySubresourceRegion") > 0
                        => /\ SizeOf(sc2) = SizeOf(client)
                           /\ Pos(calls, "Resize") < Pos(calls, "ClearRenderTargetView")
                           /\ Pos(calls, "ClearRenderTargetView")
                                < Pos(calls, "CopySubresourceRegion")]_vars

\* a frame of a new size was copied and presented after the swap chain was
\* resized to a client area of yet another size
C17_Witness ==
    /\ lastOp.op = "update" /\ lastOp.copied
    /\ lastOp.calls = <<"Resize", "ClearRenderTargetView", "OMSetRenderTargets",
                        "CopySubresourceRegion", "Present">>
    /\ LET d == instances[lastOp.idx]
       IN  /\ SizeOf(d.displaySwapChain) = SizeOf(d.displayWindow.client)
           /\ SizeOf(d.texture) # SizeOf(d.displaySwapChain)
           /\ d.texture.id = 2

\* C18: after every update that copied a frame the session's color_space is
\* GS_CS_709_SCRGB when the session is HDR, GS_CS_SRGB_16F when it is not
\* and the frame's format is R16G16B16A16_FLOAT, GS_CS_SRGB otherwise, also
\* when the format changed from the previous frame at the same size.
C18_ColorSpaceOfLatestFrame ==
    [][\A i \in DOMAIN instances :
        (IsUpdate(i) /\ lastOp'.copied)
            => instances'[i].color_space =
                 IF instances'[i].hdr THEN "GS_CS_709_SCRGB"
                 ELSE IF lastOp'.desc.Format = FORMAT_FP16 THEN "GS_CS_SRGB_16F"
                 ELSE "GS_CS_SRGB"]_vars

\* the second texture of a session whose frames all have one size: the
\* format went from half float to 8 bit
C18_Witness ==
    /\ lastOp.op = "update" /\ lastOp.copied
    /\ lastOp.desc.Format = FORMAT_BGRA8
    /\ LET d == instances[lastOp.idx]
       IN  /\ ~d.hdr /\ d.texture.id = 2
           /\ d.texture.format = "GS_BGRA"
           /\ d.color_space = "GS_CS_SRGB"

\* C19: whatever fails in CreateDisplayWindow (registering the window class,
\* looking up the output, creating the window or its swap chain), the
\* construction succeeds and the session is registered, without window and
\* without swap chain; a session has both or neither; and a session without
\* preview still polls and copies frames, presenting nothing.
C19_PreviewFailureNotFatal ==
    [][/\ \A i \in MonitorIdx :
            (IsCreate(i) /\ ~Registered(i))
                => \/ /\ lastOp'.ret # NoSession
                      /\ i \in DOMAIN instances'
                      /\ instances'[i].displayWindow.hwnd
                      /\ instances'[i].displaySwapChain.ptr
                   \/ \A c \in {e \in CaptureEnvs(i) : Duplicates(e)} :
                        \A w \in WindowEnvs :
                            device_duplicator_create(i, c, w)
                                => /\ lastOp'.ret # NoSession
                                   /\ i \in DOMAIN instances'
                                   /\ ~instances'[i].displayWindow.hwnd
                                   /\ ~instances'[i].displaySwapChain.ptr
       /\ \A i \in DOMAIN instances' :
            instances'[i].displayWindow.hwnd <=> instances'[i].displaySwapChain.ptr
       /\ \A i \in DOMAIN instances :
            (IsUpdate(i) /\ ~instances[i].displayWindow.hwnd)
                => /\ lastOp'.polled /\ lastOp'.calls = <<>>
                   /\ (lastOp'.hr = "S_OK" /\ lastOp'.desc # NoDesc)
                        => lastOp'.copied /\ instances'[i].updated]_vars

\* C20: when update has returned false for a session and the caller then
\* releases its handle and calls device_duplicator_create for the same
\* index, the create does not return the lost session: what it returns is
\* newly constructed (no cached texture, updated = false), whatever refs the
\* lost session had.
C20_ReacquireAfterLoss ==
    [][\A i \in MonitorIdx :
        (lastOp.op = "destroy" /\ lastOp.idx = i /\ lastOp.afterLoss /\ IsCreate(i))
            => /\ lastOp'.ret # lastOp.id
               /\ lastOp'.ret # NoSession
                    => /\ lastOp'.constructed
                       /\ instances'[i].id = lastOp'.ret
                       /\ instances'[i].refs = 1
                       /\ instances'[i].texture = NullTexture
                       /\ ~instances'[i].updated]_vars

====
